---- MODULE Spec2Model ----
(***************************************************************************)
(* Model of src/app.py: the IDX portfolio rebalancing simulator.           *)
(*                                                                         *)
(* The script is one Streamlit run: three input widgets, the "Run          *)
(* Simulation" button, the ticker-count check, the price download, and the *)
(* simulation section (initial allocation, the loop over the price rows    *)
(* with its rebalance block, the two equity-curve tables).                 *)
(*                                                                         *)
(* Numbers.  The script computes in Python/numpy floats.  A float is       *)
(* modelled as an extended rational [n, d]: d > 0 is the exact fraction    *)
(* n/d in lowest terms, and d = 0 is one of the IEEE-754 specials that     *)
(* numpy's division yields instead of raising (n = 1: +inf, n = -1: -inf,  *)
(* n = 0: NaN).  Finite arithmetic is exact: rounding to 53 bits is not    *)
(* modelled, so an equality checked here is the equality the spec states   *)
(* "within floating-point tolerance".  Prices are non-negative, so no      *)
(* negative zero arises.                                                   *)
(*                                                                         *)
(* Assets are identified by their position in tickers_clean (1..n); the    *)
(* ticker strings themselves are taken to be distinct.  A date is          *)
(* identified by its zero-based row index in prices_df.                    *)
(***************************************************************************)
EXTENDS Integers, Sequences, FiniteSets, TLC

VARIABLES
    tickers_input,        \* the text area: a sequence of lines ("" is a blank line)
    period_typed,         \* what was last typed into the rebalance-period box
    rebalance_period,     \* the value st.number_input returns for the period
    equity_typed,         \* what was last typed into the initial-equity box
    initial_equity,       \* the value st.number_input returns for the equity
    pc,                   \* position of the script run
    downloads,            \* number of yf.download calls issued by this run
    prices_df,            \* the aligned price table: a sequence of rows
    shares_reb,
    shares_hold,
    equity_reb_curves,
    equity_hold_curves,
    portfolio_reb_curve,
    portfolio_hold_curve,
    rebalance_log,
    i,                    \* the loop index of `for i, date in enumerate(...)`
    equity_reb_df,
    equity_hold_df

vars == <<tickers_input, period_typed, rebalance_period, equity_typed,
          initial_equity, pc, downloads, prices_df, shares_reb, shares_hold,
          equity_reb_curves, equity_hold_curves, portfolio_reb_curve,
          portfolio_hold_curve, rebalance_log, i, equity_reb_df, equity_hold_df>>

inputVars == <<tickers_input, period_typed, rebalance_period, equity_typed,
               initial_equity>>

simVars == <<shares_reb, shares_hold, equity_reb_curves, equity_hold_curves,
             portfolio_reb_curve, portfolio_hold_curve, rebalance_log, i,
             equity_reb_df, equity_hold_df>>

----------------------------------------------------------------------------
(* Bounds of the model *)

MaxLen == 3        \* longest price table of the simulation section's inputs
MaxPeriod == 3     \* largest rebalance period of the simulation section's inputs
MaxLines == 6      \* most lines typed into the ticker text area

(* Program constants *)

MinTickers == 2
MaxTickers == 5
MinEquity == 1000000
MinPeriod == 5
DefaultEquity == 100000000
DefaultPeriod == 20

----------------------------------------------------------------------------
(* Float arithmetic as extended rationals *)

Abs(x) == IF x < 0 THEN -x ELSE x

Sign(x) == IF x < 0 THEN -1 ELSE IF x > 0 THEN 1 ELSE 0

RECURSIVE GCD(_, _)
GCD(a, b) == IF b = 0 THEN a ELSE GCD(b, a % b)

Norm(n, d) ==
    LET g == GCD(Abs(n), Abs(d))
        s == IF d < 0 THEN -1 ELSE 1
    IN  [n |-> (s * n) \div g, d |-> (s * d) \div g]

R(k) == [n |-> k, d |-> 1]
Frac(a, b) == Norm(a, b)

NaN == [n |-> 0, d |-> 0]
Inf(s) == [n |-> s, d |-> 0]

IsFinite(x) == x.d > 0
IsNaN(x) == x.d = 0 /\ x.n = 0
IsZero(x) == x.d > 0 /\ x.n = 0
IsPositive(x) == x.d > 0 /\ x.n > 0

RNeg(x) == [n |-> -x.n, d |-> x.d]

RMul(a, b) ==
    IF IsNaN(a) \/ IsNaN(b) THEN NaN
    ELSE IF ~IsFinite(a) \/ ~IsFinite(b)
         THEN (IF IsZero(a) \/ IsZero(b) THEN NaN ELSE Inf(Sign(a.n) * Sign(b.n)))
    ELSE LET g1 == GCD(Abs(a.n), b.d)
             g2 == GCD(Abs(b.n), a.d)
         IN  [n |-> (a.n \div g1) * (b.n \div g2),
              d |-> (a.d \div g2) * (b.d \div g1)]

RDiv(a, b) ==
    IF IsNaN(a) \/ IsNaN(b) THEN NaN
    ELSE IF ~IsFinite(a)
         THEN (IF ~IsFinite(b) THEN NaN
               ELSE Inf(Sign(a.n) * (IF b.n < 0 THEN -1 ELSE 1)))
    ELSE IF ~IsFinite(b) THEN R(0)
    ELSE IF b.n = 0
         THEN (IF a.n = 0 THEN NaN ELSE Inf(Sign(a.n)))
    ELSE RMul(a, Norm(b.d, b.n))

RAdd(a, b) ==
    IF IsNaN(a) \/ IsNaN(b) THEN NaN
    ELSE IF ~IsFinite(a)
         THEN (IF ~IsFinite(b) /\ a.n # b.n THEN NaN ELSE a)
    ELSE IF ~IsFinite(b) THEN b
    ELSE LET g == GCD(a.d, b.d)
         IN  Norm(a.n * (b.d \div g) + b.n * (a.d \div g), (a.d \div g) * b.d)

RSub(a, b) == RAdd(a, RNeg(b))

\* total += v over the tickers in order, starting from 0
RECURSIVE SumTo(_, _)
SumTo(f, k) == IF k = 0 THEN R(0) ELSE RAdd(SumTo(f, k - 1), f[k])

\* Python's i % p for p # 0: the result takes the sign of p
PyMod(a, b) == IF b > 0 THEN a % b ELSE -((-a) % (-b))

----------------------------------------------------------------------------
(* The script's values *)

\* tickers = [t.strip().upper() + ".JK" for t in lines if t.strip()]
tickers == SelectSeq(tickers_input, LAMBDA l : l # "")

\* tickers_clean = [t.replace(".JK", "") for t in tickers]
tickers_clean == 1 .. Len(tickers)

n_assets == Len(tickers)

target_weight == RDiv(R(1), R(n_assets))

\* prices_df.iloc[k][t]
Price(k, t) == prices_df[k + 1][t]

\* if not (2 <= len(tickers) <= 5)
TickerCountOK_upperonly(n) == n <= MaxTickers
TickerCountOK(n) == MinTickers <= n /\ n <= MaxTickers

\* i > 0 and i % rebalance_period == 0
RebalanceDue_nofirst(k) == PyMod(k, rebalance_period) = 0
RebalanceDue_swapped(k) == k > 0 /\ PyMod(rebalance_period, k) = 0
RebalanceDue(k) == k > 0 /\ PyMod(k, rebalance_period) = 0

----------------------------------------------------------------------------
(* The simulation section *)

NotRun ==
    /\ shares_reb = << >>
    /\ shares_hold = << >>
    /\ equity_reb_curves = << >>
    /\ equity_hold_curves = << >>
    /\ portfolio_reb_curve = << >>
    /\ portfolio_hold_curve = << >>
    /\ rebalance_log = << >>
    /\ i = 0
    /\ equity_reb_df = << >>
    /\ equity_hold_df = << >>

\* alloc = initial_equity * target_weight; alloc / prices_df.iloc[0][t]
InitialShares_noweight(t) == RDiv(R(initial_equity), Price(0, t))
InitialShares(t) == RDiv(RMul(R(initial_equity), target_weight), Price(0, t))

InitialAllocation ==
    /\ pc = "alloc"
    /\ IF Len(prices_df) = 0
       THEN \* prices_df.iloc[0] on an empty table raises IndexError
            /\ pc' = "error"
            /\ UNCHANGED simVars
       ELSE /\ shares_reb' = [t \in tickers_clean |-> InitialShares(t)]
            /\ shares_hold' = [t \in tickers_clean |-> InitialShares(t)]
            /\ equity_reb_curves' = [t \in tickers_clean |-> << >>]
            /\ equity_hold_curves' = [t \in tickers_clean |-> << >>]
            /\ pc' = "loop"
            /\ UNCHANGED <<portfolio_reb_curve, portfolio_hold_curve,
                           rebalance_log, i, equity_reb_df, equity_hold_df>>
    /\ UNCHANGED <<inputVars, downloads, prices_df>>

\* v_reb = shares_reb[t] * prices_df.iloc[i][t]
ValueReb_target(t) ==
    IF RebalanceDue(i)
    THEN RMul(SumTo([u \in tickers_clean |-> RMul(shares_reb[u], Price(i, u))], n_assets),
              target_weight)
    ELSE RMul(shares_reb[t], Price(i, t))
ValueReb(t) == RMul(shares_reb[t], Price(i, t))

\* v_hold = shares_hold[t] * prices_df.iloc[i][t]
ValueHold(t) == RMul(shares_hold[t], Price(i, t))

\* target_value = total_reb * target_weight
TargetValue_initial(total_reb) == RMul(R(initial_equity), target_weight)
TargetValue(total_reb) == RMul(total_reb, target_weight)

\* shares_reb[t] = target_value / prices_df.iloc[i][t]
NewShares(target_value) == [t \in tickers_clean |-> RDiv(target_value, Price(i, t))]

\* the log row of the rebalance block
LogRow(values_reb, target_value) ==
    [Date |-> i,
     Before |-> values_reb,
     Drift |-> [t \in tickers_clean |->
                  RMul(RSub(RDiv(values_reb[t], target_value), R(1)), R(100))],
     Transfer |-> [t \in tickers_clean |-> RSub(target_value, values_reb[t])]]

\* the rebalance block, given this row's values_reb and total_reb
Rebalance_both(values_reb, total_reb) ==
    /\ shares_reb' = NewShares(TargetValue(total_reb))
    /\ shares_hold' = NewShares(TargetValue(total_reb))
    /\ rebalance_log' = Append(rebalance_log, LogRow(values_reb, TargetValue(total_reb)))
Rebalance(values_reb, total_reb) ==
    /\ shares_reb' = NewShares(TargetValue(total_reb))
    /\ rebalance_log' = Append(rebalance_log, LogRow(values_reb, TargetValue(total_reb)))
    /\ UNCHANGED shares_hold

LoopIteration ==
    /\ pc = "loop"
    /\ i < Len(prices_df)
    /\ LET values_reb == [t \in tickers_clean |-> ValueReb(t)]
           values_hold == [t \in tickers_clean |-> ValueHold(t)]
           total_reb == SumTo(values_reb, n_assets)
           total_hold == SumTo(values_hold, n_assets)
       IN  /\ equity_reb_curves' =
                 [t \in tickers_clean |-> Append(equity_reb_curves[t], values_reb[t])]
           /\ equity_hold_curves' =
                 [t \in tickers_clean |-> Append(equity_hold_curves[t], values_hold[t])]
           /\ portfolio_reb_curve' = Append(portfolio_reb_curve, total_reb)
           /\ portfolio_hold_curve' = Append(portfolio_hold_curve, total_hold)
           /\ IF i > 0 /\ rebalance_period = 0
              THEN \* i % 0 raises ZeroDivisionError
                   /\ pc' = "error"
                   /\ UNCHANGED <<shares_reb, shares_hold, rebalance_log, i>>
              ELSE /\ IF RebalanceDue(i)
                      THEN Rebalance(values_reb, total_reb)
                      ELSE UNCHANGED <<shares_reb, shares_hold, rebalance_log>>
                   /\ i' = i + 1
                   /\ pc' = pc
    /\ UNCHANGED <<inputVars, downloads, prices_df, equity_reb_df, equity_hold_df>>

\* pd.DataFrame(curves); df["Portfolio"] = portfolio curve
Finish ==
    /\ pc = "loop"
    /\ i = Len(prices_df)
    /\ equity_reb_df' = [Assets |-> equity_reb_curves, Portfolio |-> portfolio_reb_curve]
    /\ equity_hold_df' = [Assets |-> equity_hold_curves, Portfolio |-> portfolio_hold_curve]
    /\ pc' = "done"
    /\ UNCHANGED <<inputVars, downloads, prices_df, shares_reb, shares_hold,
                   equity_reb_curves, equity_hold_curves, portfolio_reb_curve,
                   portfolio_hold_curve, rebalance_log, i>>

----------------------------------------------------------------------------
(***************************************************************************)
(* The simulation section on its own, entered with its four inputs         *)
(* (tickers, prices_df, initial_equity, rebalance_period) drawn from       *)
(* bounded sets.  The section's code takes any period; the period widget's *)
(* minimum is part of the whole script, modelled further below.  A price   *)
(* of 0 stands for corrupt market data, which the download does not        *)
(* exclude.                                                                *)
(***************************************************************************)

PriceSet == {0, 1, 2}

\* the rows in which the first or the last asset's price may differ from 1
RowSet(n) ==
    { [t \in 1 .. n |-> IF t = k THEN R(p) ELSE R(1)] : k \in {1, n}, p \in PriceSet }

PriceTables(n) == UNION { [1 .. len -> RowSet(n)] : len \in 1 .. MaxLen }

TickerLines(n) == [k \in 1 .. n |-> "tk"]

\* spec section 8, property 7
ScenarioPrices ==
    << <<R(100), R(200)>>, <<R(110), R(190)>>, <<R(121), Frac(361, 2)>> >>

Scenario == [n |-> 2, prices |-> ScenarioPrices, equity |-> 1000000, period |-> 2]

EquitySet == {MinEquity, 3 * MinEquity}

ConfigsFor(n) ==
    { [n |-> n, prices |-> tbl, equity |-> e, period |-> p] :
        tbl \in PriceTables(n), e \in EquitySet, p \in 1 .. MaxPeriod }

Configs == UNION { ConfigsFor(n) : n \in MinTickers .. MaxTickers } \cup {Scenario}

Init ==
    /\ \E c \in Configs :
         /\ tickers_input = TickerLines(c.n)
         /\ prices_df = c.prices
         /\ initial_equity = c.equity
         /\ equity_typed = c.equity
         /\ rebalance_period = c.period
         /\ period_typed = c.period
         /\ downloads = c.n
    /\ pc = "alloc"
    /\ NotRun

Next == InitialAllocation \/ LoopIteration \/ Finish

Spec == Init /\ [][Next]_vars

----------------------------------------------------------------------------
(* The whole script: widgets, button, ticker-count check, download *)

\* st.number_input(..., min_value=...) never returns a value below min_value:
\* an entry below it is refused and the widget keeps its value
PeriodAccepted_any(r) == TRUE
PeriodAccepted(r) == r >= MinPeriod

EquityAccepted(e) == e >= MinEquity

\* a rerun of the script without the button: none of the run's values exist
Rerun ==
    /\ pc' = "idle"
    /\ downloads' = 0
    /\ prices_df' = << >>
    /\ shares_reb' = << >>
    /\ shares_hold' = << >>
    /\ equity_reb_curves' = << >>
    /\ equity_hold_curves' = << >>
    /\ portfolio_reb_curve' = << >>
    /\ portfolio_hold_curve' = << >>
    /\ rebalance_log' = << >>
    /\ i' = 0
    /\ equity_reb_df' = << >>
    /\ equity_hold_df' = << >>

\* the texts typed into the text area: up to MaxLines lines, at most one blank
TickerInputs ==
    { s \in UNION { [1 .. len -> {"", "tk"}] : len \in 0 .. MaxLines } :
        Cardinality({ k \in DOMAIN s : s[k] = "" }) <= 1 }

PeriodEntries == {-1, 0, MinPeriod - 1, MinPeriod}

EquityEntries == {MinEquity - 1, MinEquity}

\* the aligned tables the download yields: every price 1
AppTables(n) ==
    { [r \in 1 .. len |-> [t \in 1 .. n |-> R(1)]] : len \in {0, 1, MinPeriod + 1} }

EditTickers ==
    \E s \in TickerInputs :
        /\ s # tickers_input
        /\ tickers_input' = s
        /\ Rerun
        /\ UNCHANGED <<period_typed, rebalance_period, equity_typed, initial_equity>>

EditPeriod ==
    \E r \in PeriodEntries :
        /\ r # period_typed
        /\ period_typed' = r
        /\ IF PeriodAccepted(r)
           THEN rebalance_period' = r /\ Rerun
           ELSE UNCHANGED <<rebalance_period, pc, downloads, prices_df, simVars>>
        /\ UNCHANGED <<tickers_input, equity_typed, initial_equity>>

EditEquity ==
    \E e \in EquityEntries :
        /\ e # equity_typed
        /\ equity_typed' = e
        /\ IF EquityAccepted(e)
           THEN initial_equity' = e /\ Rerun
           ELSE UNCHANGED <<initial_equity, pc, downloads, prices_df, simVars>>
        /\ UNCHANGED <<tickers_input, period_typed, rebalance_period>>

\* if st.button("Run Simulation"): the ticker-count check
ClickRun ==
    /\ downloads' = 0
    /\ prices_df' = << >>
    /\ shares_reb' = << >>
    /\ shares_hold' = << >>
    /\ equity_reb_curves' = << >>
    /\ equity_hold_curves' = << >>
    /\ portfolio_reb_curve' = << >>
    /\ portfolio_hold_curve' = << >>
    /\ rebalance_log' = << >>
    /\ i' = 0
    /\ equity_reb_df' = << >>
    /\ equity_hold_df' = << >>
    /\ pc' = IF TickerCountOK(Len(tickers)) THEN "fetch" ELSE "stopped"
    /\ UNCHANGED inputVars

\* one yf.download of the fetch loop; an empty frame stops the run
Download ==
    /\ pc = "fetch"
    /\ downloads < n_assets
    /\ downloads' = downloads + 1
    /\ \E empty \in BOOLEAN : pc' = IF empty THEN "stopped" ELSE "fetch"
    /\ UNCHANGED <<inputVars, prices_df, simVars>>

\* pd.concat(...).dropna()
Align ==
    /\ pc = "fetch"
    /\ downloads = n_assets
    /\ \E tbl \in AppTables(n_assets) : prices_df' = tbl
    /\ pc' = "alloc"
    /\ UNCHANGED <<inputVars, downloads, simVars>>

AppInit ==
    /\ tickers_input = <<"tk", "tk", "tk">>
    /\ period_typed = DefaultPeriod
    /\ rebalance_period = DefaultPeriod
    /\ equity_typed = DefaultEquity
    /\ initial_equity = DefaultEquity
    /\ pc = "idle"
    /\ downloads = 0
    /\ prices_df = << >>
    /\ NotRun

AppNext ==
    \/ EditTickers
    \/ EditPeriod
    \/ EditEquity
    \/ ClickRun
    \/ Download
    \/ Align
    \/ InitialAllocation
    \/ LoopIteration
    \/ Finish

SpecApp == AppInit /\ [][AppNext]_vars

----------------------------------------------------------------------------
(* Properties of the simulation section *)

Started == pc \in {"loop", "done"}

Events == 1 .. Len(rebalance_log)

AllPricesPositive ==
    \A r \in 1 .. Len(prices_df) : \A t \in tickers_clean : IsPositive(prices_df[r][t])

\* the last log entry dated before row k (0 when there is none)
LastEventBefore(k) ==
    LET before == { e \in Events : rebalance_log[e].Date < k }
    IN  IF before = {} THEN 0 ELSE CHOOSE e \in before : \A f \in before : f <= e

\* C1: in every logged rebalance event of a run over positive prices the
\* transfers (target_value - value before) of all assets add up to 0.
C1_Conservation ==
    AllPricesPositive =>
        \A e \in Events : SumTo(rebalance_log[e].Transfer, n_assets) = R(0)

C1_Witness ==
    /\ AllPricesPositive
    /\ n_assets = MaxTickers
    /\ \E e \in Events : \E t \in tickers_clean : rebalance_log[e].Transfer[t] # R(0)

\* C2: right after the loop iteration of a rebalance index k (k > 0 and
\* k mod rebalance_period = 0) every asset's shares_reb times its row-k price
\* equals the row-k total of the rebalanced tracker divided by the asset count.
C2_EqualWeightAfterRebalance ==
    (Started /\ i >= 1 /\ i - 1 > 0 /\ (i - 1) % rebalance_period = 0) =>
        \A t \in tickers_clean :
            RMul(shares_reb[t], Price(i - 1, t)) = RDiv(portfolio_reb_curve[i], R(n_assets))

\* C3: once set by the initial allocation, shares_hold is the same map in
\* every later state, rebalance iterations included.
C3_HoldInvariance ==
    Started => shares_hold = [t \in tickers_clean |-> InitialShares(t)]

C3_Witness ==
    /\ pc = "done"
    /\ Len(rebalance_log) >= 1
    /\ shares_reb # shares_hold

\* C4: an event is logged for row k exactly when k > 0 and k mod period = 0;
\* so none at row 0, the first at row period, floor((L-1)/period) in all,
\* and in strictly ascending row order.
C4_RebalanceTiming ==
    Started =>
        /\ \A k \in 0 .. i - 1 :
               (\E e \in Events : rebalance_log[e].Date = k)
                   <=> (k > 0 /\ k % rebalance_period = 0)
        /\ \A e \in Events : rebalance_log[e].Date \in 1 .. i - 1
        /\ \A e \in Events : e > 1 => rebalance_log[e - 1].Date < rebalance_log[e].Date
        /\ Events # {} => rebalance_log[1].Date = rebalance_period
        /\ pc = "done" =>
               Len(rebalance_log) = (Len(prices_df) - 1) \div rebalance_period

C4_Witness ==
    /\ pc = "done"
    /\ Len(rebalance_log) >= 2
    /\ rebalance_period < Len(prices_df) - 1

\* C5: when the period exceeds the last row index, the finished run has an
\* empty log and a rebalanced equity table equal to the buy-and-hold one.
C5_NoRebalanceCase ==
    (pc = "done" /\ rebalance_period > Len(prices_df) - 1) =>
        /\ rebalance_log = << >>
        /\ equity_reb_df = equity_hold_df

C5_Witness ==
    /\ pc = "done"
    /\ rebalance_period > Len(prices_df) - 1
    /\ Len(prices_df) >= 3
    /\ AllPricesPositive
    /\ \E t \in tickers_clean : equity_hold_df.Assets[t][1] # equity_hold_df.Assets[t][3]

\* C7: a price <= 0 at the initial allocation or at a reallocation aborts the
\* run: no share count is set from it and no results are produced.
C7_BadPriceAborts ==
    /\ (Len(prices_df) >= 1 /\ \E t \in tickers_clean : ~IsPositive(Price(0, t))) =>
           (pc \in {"alloc", "error"} /\ shares_reb = << >> /\ shares_hold = << >>
            /\ equity_reb_df = << >> /\ equity_hold_df = << >>)
    /\ \A e \in Events : \A t \in tickers_clean :
           IsPositive(Price(rebalance_log[e].Date, t))

\* the shares valued at row k: the initial ones, or those the last event before k set
SharesInForce(k, t) ==
    LET e == LastEventBefore(k)
    IN  IF e = 0 THEN InitialShares(t)
        ELSE RDiv(RDiv(portfolio_reb_curve[rebalance_log[e].Date + 1], R(n_assets)),
                  Price(rebalance_log[e].Date, t))

\* C10: every row of the rebalanced curve is valued with the shares in force
\* before that row's own reallocation: the initial shares up to and including
\* the first rebalance row, afterwards the shares set by the last event dated
\* strictly before the row; a rebalance row's values are the event's
\* "Equity (Before)" values; the finished table holds exactly these rows.
C10_ValuationBeforeReallocation ==
    Started =>
        /\ \A k \in 0 .. i - 1 : \A t \in tickers_clean :
               equity_reb_curves[t][k + 1] = RMul(SharesInForce(k, t), Price(k, t))
        /\ \A k \in 0 .. i - 1 :
               portfolio_reb_curve[k + 1] =
                   SumTo([t \in tickers_clean |-> equity_reb_curves[t][k + 1]], n_assets)
        /\ \A e \in Events : \A t \in tickers_clean :
               rebalance_log[e].Before[t] = equity_reb_curves[t][rebalance_log[e].Date + 1]
        /\ pc = "done" =>
               /\ equity_reb_df.Assets = equity_reb_curves
               /\ equity_reb_df.Portfolio = portfolio_reb_curve
               /\ \A t \in tickers_clean : Len(equity_reb_curves[t]) = Len(prices_df)

\* a rebalance at the last row, after an earlier one, with a real reallocation
C10_Witness ==
    /\ pc = "done"
    /\ Len(rebalance_log) >= 2
    /\ rebalance_log[Len(rebalance_log)].Date = Len(prices_df) - 1
    /\ AllPricesPositive
    /\ \E t \in tickers_clean : rebalance_log[Len(rebalance_log)].Transfer[t] # R(0)

InScenario ==
    /\ n_assets = Scenario.n
    /\ prices_df = Scenario.prices
    /\ initial_equity = Scenario.equity
    /\ rebalance_period = Scenario.period

\* the scenario run, with the given figures: initial shares a0, b0; row-1
\* values a1, b1; row-2 values a2, b2; and the one event at row 2 with the
\* given target, A's transfer xfer (B's is -xfer) and shares target / price
ScenarioRun(a0, b0, a1, b1, a2, b2, target, xfer) ==
    (InScenario /\ Started) =>
        /\ shares_hold = <<R(a0), R(b0)>>
        /\ i = 0 => shares_reb = <<R(a0), R(b0)>>
        /\ i >= 2 =>
               /\ equity_reb_curves[1][2] = R(a1)
               /\ equity_reb_curves[2][2] = R(b1)
               /\ portfolio_reb_curve[2] = R(a1 + b1)
        /\ i = 2 => rebalance_log = << >>
        /\ i >= 3 =>
               /\ equity_reb_curves[1][3] = R(a2)
               /\ equity_reb_curves[2][3] = R(b2)
               /\ portfolio_reb_curve[3] = R(a2 + b2)
               /\ Len(rebalance_log) = 1
               /\ rebalance_log[1].Date = 2
               /\ rebalance_log[1].Before = <<R(a2), R(b2)>>
               /\ rebalance_log[1].Transfer = <<R(xfer), R(-xfer)>>
               /\ \A t \in tickers_clean :
                      RAdd(rebalance_log[1].Before[t], rebalance_log[1].Transfer[t])
                          = R(target)
               /\ shares_reb = <<RDiv(R(target), R(121)), RDiv(R(target), Frac(361, 2))>>

\* C9 as stated: initial shares 2500 and 2500; row 1 values 275000 and 475000
\* (total 750000), no event; row 2 values 302500 and 451250 (total 753750),
\* one event with target 376875, transfers 74375 and -74375, and shares
\* 376875/121 and 376875/180.5.
C9_ScenarioAsStated ==
    ScenarioRun(2500, 2500, 275000, 475000, 302500, 451250, 376875, 74375)

\* C9 as the code computes it: initial shares 5000 and 2500; row 1 values
\* 550000 and 475000 (total 1025000), no event; row 2 values 605000 and 451250
\* (total 1056250), one event with target 528125, transfers -76875 and 76875,
\* and shares 528125/121 and 528125/180.5.
C9_ScenarioAsComputed ==
    ScenarioRun(5000, 2500, 550000, 475000, 605000, 451250, 528125, -76875)

C9_Witness == InScenario /\ pc = "done" /\ Len(rebalance_log) = 1

----------------------------------------------------------------------------
(* Properties of the whole script *)

\* C6: while the text area holds fewer than 2 or more than 5 tickers, no
\* download has been issued, no price table exists, and no share map, curve
\* row or log entry has been made: the run stops at the ticker-count check.
C6_BadTickerCountRejected ==
    (n_assets < MinTickers \/ n_assets > MaxTickers) =>
        /\ pc \in {"idle", "stopped"}
        /\ downloads = 0
        /\ prices_df = << >>
        /\ NotRun

C6_Witness ==
    /\ pc = "stopped"
    /\ n_assets = MaxTickers + 1
    /\ downloads = 0

\* C8: a period below 1 never reaches the simulation: an entry below 1 is not
\* taken as the period, and with a period below 1 there is no share map, no
\* curve row and no log entry.
C8_PeriodBelowOneRejected ==
    /\ period_typed < 1 => rebalance_period # period_typed
    /\ rebalance_period < 1 => (pc \in {"idle", "stopped", "fetch"} /\ NotRun)

\* a period below 1 was entered and the run went on with the period kept
C8_Witness ==
    /\ period_typed < 1
    /\ pc = "done"
    /\ Len(rebalance_log) >= 1

====
